---- MODULE Spec2Model ----
(***************************************************************************)
(* Model of the schema-inferring ingestion pipeline of pdf-etl-engine:     *)
(* the storage-event webhook gcs_trigger_handler, the schema reconcilers   *)
(* sync_bigquery_schema_typed / sync_bigquery_schema, the configuration    *)
(* endpoints create_folder / confirm_kpis (src/main.py).                   *)
(*                                                                         *)
(* Strings whose content the code inspects (KPI names, raw values) are     *)
(* sequences of one-character strings.  Every external call (document     *)
(* store, object store, table store, oracle) is one step of an invocation. *)
(***************************************************************************)
EXTENDS Integers, Sequences, FiniteSets, TLC

(* ----------------------------- bounds --------------------------------- *)
\* number of request invocations (of any endpoint) in one behaviour
MaxInv == 2
\* longest selected_kpis list a confirm_kpis payload carries
MaxKpis == 1
\* invocations in progress at the same time
MaxRunning == 2
\* last second the clock shows (it starts at 0)
MaxTime == 1

Inv == 1..MaxInv

(* --------------------------- small helpers ---------------------------- *)
Range(s) == { s[n] : n \in DOMAIN s }

SeqsUpTo(S, n) == UNION { [1..m -> S] : m \in 0..n }

(* ------------------------ column-name sanitization -------------------- *)
\* the characters KPI names are drawn from
UpperChars == { "T", "D" }
LowerChars == { "t", "d" }
OtherChars == { "-", " " }
NameChars == UpperChars \cup LowerChars \cup { "_" } \cup OtherChars

UpperLetters ==
    << "A", "B", "C", "D", "E", "F", "G", "H", "I", "J", "K", "L", "M",
       "N", "O", "P", "Q", "R", "S", "T", "U", "V", "W", "X", "Y", "Z" >>
LowerLetters ==
    << "a", "b", "c", "d", "e", "f", "g", "h", "i", "j", "k", "l", "m",
       "n", "o", "p", "q", "r", "s", "t", "u", "v", "w", "x", "y", "z" >>
LetterChars == Range(UpperLetters) \cup Range(LowerLetters)

\* str.lower() on one character
LowerChar(c) ==
    IF c \in Range(UpperLetters)
    THEN LowerLetters[CHOOSE n \in DOMAIN UpperLetters : UpperLetters[n] = c]
    ELSE c

\* the class [a-zA-Z0-9_]
WordChars ==
    LetterChars \cup { "0", "1", "2", "3", "4", "5", "6", "7", "8", "9", "_" }

\* re.sub(r'[^a-zA-Z0-9_]', '_', s).lower(), character by character
SanitizeChar(c) == LowerChar(IF c \in WordChars THEN c ELSE "_")

Sanitize(s) == [ n \in DOMAIN s |-> SanitizeChar(s[n]) ]

\* f"kpi_{...}"
ColName(kpi_name) == << "k", "p", "i", "_" >> \o Sanitize(kpi_name)

(* ------------------------------ types --------------------------------- *)
Tags == { "number", "date", "categorical", "string" }

\* get_bigquery_type: type_mapping.get(ai_type, "STRING")
get_bigquery_type(ai_type) ==
    CASE ai_type = "number" -> "FLOAT64"
      [] ai_type = "date" -> "DATE"
      [] OTHER -> "STRING"

Field(name, type) == [ name |-> name, type |-> type ]

\* the three fixed columns every created table starts with
FixedSchema ==
    << Field(<< "row_id" >>, "STRING"),
       Field(<< "file_name" >>, "STRING"),
       Field(<< "uploaded_at" >>, "TIMESTAMP") >>

FixedCols == { f.name : f \in Range(FixedSchema) }

(* --------------------------- value normalizer ------------------------- *)
NULL == [ k |-> "null" ]

\* the characters raw extracted values are drawn from
DigitChars == { "0", "1", "2", "3", "4", "5", "6", "7", "8", "9" }
SpaceChars == { " " }
\* the class [$€£¥,\s%] removed by the number branch (those that occur here)
CurrencyChars == { "$", ",", "%" } \cup SpaceChars

DigitVal(c) ==
    CASE c = "0" -> 0 [] c = "1" -> 1 [] c = "2" -> 2 [] c = "3" -> 3
      [] c = "4" -> 4 [] c = "5" -> 5 [] c = "6" -> 6 [] c = "7" -> 7
      [] c = "8" -> 8 [] c = "9" -> 9

\* the absence sentinels: "", "N/A", "---" (None is modelled as "")
IsAbsent(value) ==
    value \in { << >>, << "N", "/", "A" >>, << "-", "-", "-" >> }

RECURSIVE LStrip(_)
LStrip(s) == IF s # << >> /\ Head(s) \in SpaceChars THEN LStrip(Tail(s)) ELSE s

RECURSIVE RStrip(_)
RStrip(s) ==
    IF s # << >> /\ s[Len(s)] \in SpaceChars
    THEN RStrip(SubSeq(s, 1, Len(s) - 1)) ELSE s

\* str.strip()
Strip(s) == RStrip(LStrip(s))

\* re.sub(r'[$€£¥,\s%]', '', val_str)
RemoveCurrency(s) == SelectSeq(s, LAMBDA c : c \notin CurrencyChars)

\* (100) -> -100
Unparen(cleaned) ==
    IF cleaned # << >> /\ Head(cleaned) = "(" /\ cleaned[Len(cleaned)] = ")"
    THEN << "-" >> \o SubSeq(cleaned, 2, Len(cleaned) - 1)
    ELSE cleaned

RECURSIVE DigitsToInt(_)
DigitsToInt(ds) ==
    IF ds = << >> THEN 0
    ELSE 10 * DigitsToInt(SubSeq(ds, 1, Len(ds) - 1)) + DigitVal(ds[Len(ds)])

\* a number is mantissa * 10^-scale, kept without trailing fraction zeros
RECURSIVE NormNum(_, _)
NormNum(m, e) ==
    IF e > 0 /\ m % 10 = 0 THEN NormNum(m \div 10, e - 1)
    ELSE [ k |-> "num", m |-> m, e |-> e ]

\* float(s) for the strings of this alphabet: [sign] digits [. digits] or
\* [sign] . digits; anything else raises ValueError (NULL here)
ParseFloat(s) ==
    LET signed == s # << >> /\ Head(s) \in { "-", "+" }
        body == IF signed THEN Tail(s) ELSE s
        dots == { n \in DOMAIN body : body[n] = "." }
        digits == SelectSeq(body, LAMBDA c : c \in DigitChars)
        wellformed ==
            /\ \A n \in DOMAIN body : body[n] \in DigitChars \cup { "." }
            /\ Cardinality(dots) <= 1
            /\ digits # << >>
        scale == IF dots = {} THEN 0 ELSE Len(body) - (CHOOSE n \in dots : TRUE)
        mant == DigitsToInt(digits)
    IN  IF ~wellformed THEN NULL
        ELSE NormNum(IF signed /\ Head(s) = "-" THEN 0 - mant ELSE mant, scale)

\* an exception that leaves convert_value_for_bq
Raise(e) == [ k |-> "raise", e |-> e ]

\* a field of the date that the parser takes from today's date
Current == 0

IsDigits(s) == s # << >> /\ \A n \in DOMAIN s : s[n] \in DigitChars

\* s.split(sep)
RECURSIVE SplitOn(_, _)
SplitOn(s, sep) ==
    IF \A n \in DOMAIN s : s[n] # sep THEN << s >>
    ELSE LET k == CHOOSE n \in DOMAIN s : s[n] = sep /\ \A m \in 1..(n - 1) : s[m] # sep
         IN  << SubSeq(s, 1, k - 1) >> \o SplitOn(SubSeq(s, k + 1, Len(s)), sep)

DaysIn(y, m) ==
    IF m \in { 4, 6, 9, 11 } THEN 30
    ELSE IF m # 2 THEN 31
    ELSE IF y % 4 = 0 /\ (y % 100 # 0 \/ y % 400 = 0) THEN 29 ELSE 28

\* datetime.replace(year=y, month=m, day=d): ValueError (NULL here) for a
\* date that does not exist
Ymd(y, m, d) ==
    IF y \in 1..9999 /\ m \in 1..12 /\ d \in 1..DaysIn(y, m)
    THEN [ k |-> "date", y |-> y, m |-> m, d |-> d ]
    ELSE NULL

\* dateutil's parse(val_str, fuzzy=True) followed by strftime('%Y-%m-%d'), for
\* the shapes of text that occur here. Text without a digit, made of words
\* that name no month or weekday, holds no date (ParserError, a ValueError).
\* A lone number is the day of the current month (one or two digits), a year
\* (four digits), YYYYMMDD (eight digits), a year datetime refuses with
\* ValueError (five, seven, nine digits), or a year beyond the C int that
\* datetime refuses with OverflowError (eleven, thirteen, fifteen and more
\* digits), which parse() does not turn into ParserError. YYYY-M-D is year,
\* month, day. The date is held by its fields; strftime is FormatDate.
ParseDate(s) ==
    LET parts == SplitOn(s, "-")
    IN  CASE \A n \in DOMAIN s : s[n] \notin DigitChars -> NULL
          [] IsDigits(s) /\ Len(s) <= 2 /\ DigitsToInt(s) = 0 -> NULL
          [] IsDigits(s) /\ Len(s) <= 2 /\ DigitsToInt(s) \in 1..28 ->
                [ k |-> "date", y |-> Current, m |-> Current, d |-> DigitsToInt(s) ]
          [] IsDigits(s) /\ Len(s) = 4 /\ Head(s) # "0" ->
                [ k |-> "date", y |-> DigitsToInt(s), m |-> Current, d |-> Current ]
          [] IsDigits(s) /\ Len(s) \in { 5, 7, 9 } /\ Head(s) # "0" -> NULL
          [] IsDigits(s) /\ Len(s) = 8 ->
                Ymd(DigitsToInt(SubSeq(s, 1, 4)), DigitsToInt(SubSeq(s, 5, 6)),
                    DigitsToInt(SubSeq(s, 7, 8)))
          [] IsDigits(s) /\ Len(s) \in { 11, 13 } \cup 15..40 /\ Head(s) # "0" ->
                Raise("OverflowError")
          [] /\ Len(parts) = 3 /\ \A n \in 1..3 : IsDigits(parts[n])
             /\ Len(parts[1]) = 4 /\ Len(parts[2]) <= 2 /\ Len(parts[3]) <= 2 ->
                Ymd(DigitsToInt(parts[1]), DigitsToInt(parts[2]), DigitsToInt(parts[3]))

\* the decimal digits of n, at least width of them
RECURSIVE Digits(_, _)
Digits(n, width) ==
    IF n < 10 /\ width <= 1
    THEN << CHOOSE c \in DigitChars : DigitVal(c) = n >>
    ELSE Digits(n \div 10, width - 1) \o << CHOOSE c \in DigitChars : DigitVal(c) = n % 10 >>

\* strftime('%Y-%m-%d')
FormatDate(dt) ==
    Digits(dt.y, 4) \o << "-" >> \o Digits(dt.m, 2) \o << "-" >> \o Digits(dt.d, 2)

RECURSIVE Pow10(_)
Pow10(e) == IF e = 0 THEN 1 ELSE 10 * Pow10(e - 1)

\* str(x) of the float m * 10^-e: the integer part, a point, the fraction
FormatFloat(num) ==
    LET abs == IF num.m < 0 THEN 0 - num.m ELSE num.m
        whole == Digits(abs \div Pow10(num.e), 1)
        frac == IF num.e = 0 THEN << "0" >> ELSE Digits(abs % Pow10(num.e), num.e)
    IN  (IF num.m < 0 THEN << "-" >> ELSE << >>) \o whole \o << "." >> \o frac

\* a value convert_value_for_bq returned, as the value it is when passed to
\* convert_value_for_bq again (None is modelled as "")
AsRaw(v) ==
    CASE v.k = "null" -> << >>
      [] v.k = "num" -> FormatFloat(v)
      [] v.k = "date" -> FormatDate(v)
      [] v.k = "str" -> v.s

convert_value_for_bq(value, ai_type) ==
    IF IsAbsent(value) THEN NULL
    ELSE LET val_str == Strip(value)
         IN  CASE ai_type = "number" -> ParseFloat(Unparen(RemoveCurrency(val_str)))
               [] ai_type = "date" -> ParseDate(val_str)
               [] OTHER -> [ k |-> "str", s |-> val_str ]

(* --------------------------- type inference --------------------------- *)
\* how many leading characters of s are in the class S
RECURSIVE LeadingCount(_, _)
LeadingCount(s, S) ==
    IF s # << >> /\ Head(s) \in S THEN 1 + LeadingCount(Tail(s), S) ELSE 0

AllIn(s, S) == \A n \in DOMAIN s : s[n] \in S

Drop(s, n) == SubSeq(s, n + 1, Len(s))

\* re.match(r'^-?\d+\.?\d*$', s)
IsNumericText(s) ==
    LET body == IF s # << >> /\ Head(s) = "-" THEN Tail(s) ELSE s
        p == LeadingCount(body, DigitChars)
        rest == Drop(body, p)
    IN  /\ p >= 1
        /\ rest = << >> \/ (Head(rest) = "." /\ AllIn(Tail(rest), DigitChars))

\* the month names of month_pattern, lower-cased (re.IGNORECASE)
MonthNames ==
    { << "j", "a", "n", "u", "a", "r", "y" >>,
      << "f", "e", "b", "r", "u", "a", "r", "y" >>,
      << "m", "a", "r", "c", "h" >>,
      << "a", "p", "r", "i", "l" >>,
      << "m", "a", "y" >>,
      << "j", "u", "n", "e" >>,
      << "j", "u", "l", "y" >>,
      << "a", "u", "g", "u", "s", "t" >>,
      << "s", "e", "p", "t", "e", "m", "b", "e", "r" >>,
      << "o", "c", "t", "o", "b", "e", "r" >>,
      << "n", "o", "v", "e", "m", "b", "e", "r" >>,
      << "d", "e", "c", "e", "m", "b", "e", "r" >>,
      << "j", "a", "n" >>,
      << "f", "e", "b" >>,
      << "m", "a", "r" >>,
      << "a", "p", "r" >>,
      << "j", "u", "n" >>,
      << "j", "u", "l" >>,
      << "a", "u", "g" >>,
      << "s", "e", "p" >>,
      << "o", "c", "t" >>,
      << "n", "o", "v" >>,
      << "d", "e", "c" >> }

\* re.match(month_pattern, s, re.IGNORECASE):
\* ^(month)\s+\d{1,2},?\s+\d{4}$
MatchesMonthDate(s) ==
    LET w == LeadingCount(s, LetterChars)
        word == [ n \in 1..w |-> LowerChar(s[n]) ]
        r1 == Drop(s, w)
        sp1 == LeadingCount(r1, SpaceChars)
        r2 == Drop(r1, sp1)
        day == LeadingCount(r2, DigitChars)
        r3 == Drop(r2, day)
        r4 == IF r3 # << >> /\ Head(r3) = "," THEN Tail(r3) ELSE r3
        sp2 == LeadingCount(r4, SpaceChars)
        year == Drop(r4, sp2)
    IN  /\ word \in MonthNames
        /\ sp1 >= 1
        /\ day \in { 1, 2 }
        /\ sp2 >= 1
        /\ Len(year) = 4 /\ AllIn(year, DigitChars)

\* the pieces of s between the separators of the class [-/]
RECURSIVE SplitDate(_)
SplitDate(s) ==
    LET p == LeadingCount(s, { c \in Range(s) : c \notin { "-", "/" } })
    IN  IF p = Len(s) THEN << s >>
        ELSE << SubSeq(s, 1, p) >> \o SplitDate(Drop(s, p + 1))

\* date_patterns: YYYY-M-D, D-M-YYYY, D-M-YY with - or / between
MatchesNumericDate(s) ==
    LET parts == SplitDate(s)
        len(n) == Len(parts[n])
    IN  /\ Len(parts) = 3
        /\ \A n \in 1..3 : parts[n] # << >> /\ AllIn(parts[n], DigitChars)
        /\ \/ len(1) = 4 /\ len(2) \in { 1, 2 } /\ len(3) \in { 1, 2 }
           \/ len(1) \in { 1, 2 } /\ len(2) \in { 1, 2 } /\ len(3) \in { 4, 2 }

\* val_str.replace(" ", "").replace("-", "").isalpha()
IsAlphaToken(s) ==
    LET t == SelectSeq(s, LAMBDA c : c \notin { " ", "-" })
    IN  t # << >> /\ AllIn(t, LetterChars)

\* longest letters-and-digits value that is still categorical (line 180)
MaxCodeLen == 30
\* longest alphabetic value that is still categorical (line 193)
MaxWordLen == 25

\* infer_kpi_type_fallback
infer_kpi_type_fallback(value) ==
    IF IsAbsent(value) THEN "string"
    ELSE LET val_str == Strip(value)
             has_letters == \E n \in DOMAIN val_str : val_str[n] \in LetterChars
             has_numbers == \E n \in DOMAIN val_str : val_str[n] \in DigitChars
         IN  IF IsNumericText(RemoveCurrency(val_str)) THEN "number"
             ELSE IF has_letters /\ has_numbers
                  THEN IF MatchesMonthDate(val_str) THEN "date"
                       ELSE IF Len(val_str) <= MaxCodeLen THEN "categorical"
                       ELSE "string"
             ELSE IF MatchesNumericDate(val_str) THEN "date"
             ELSE IF Len(val_str) <= MaxWordLen /\ IsAlphaToken(val_str) THEN "categorical"
             ELSE "string"

\* what the classification oracle gives for one field: a JSON string, or a
\* JSON value that is no string
AnswerTexts == { "number", "categorical", "Date", "integer" }
AnswerValues ==
    { [ isstr |-> TRUE, s |-> t ] : t \in AnswerTexts } \cup { [ isstr |-> FALSE, s |-> "5" ] }

\* str.lower() on the texts the oracle answers with
TagLower(t) == CASE t = "Date" -> "date" [] OTHER -> t

ValidatedType_Unchecked(t) == TagLower(t)

\* lines 144-148: a tag outside valid_types becomes "string"
ValidatedType(t) == IF TagLower(t) \in Tags THEN TagLower(t) ELSE "string"

Ok(v) == [ k |-> "ok", v |-> v ]
Exc == [ k |-> "exc", v |-> << >> ]

\* lines 126-151, the body of the try: the call or json.loads raises; JSON that
\* is no object has no .items(); a value that is no string has no .lower()
InferBody(ans) ==
    IF ans.k \in { "raise", "other" } THEN Exc
    ELSE IF \E key \in DOMAIN ans.v : ~ans.v[key].isstr THEN Exc
    ELSE Ok([ key \in DOMAIN ans.v |-> ValidatedType(ans.v[key].s) ])

InferExcept_Reraise(kpi_samples) == Exc

\* lines 153-156, the except clause
InferExcept(kpi_samples) == Ok([ key \in DOMAIN kpi_samples |-> "string" ])

\* infer_kpi_types_with_ai
infer_kpi_types_with_ai(kpi_samples, ans) ==
    IF DOMAIN kpi_samples = {} THEN Ok(<< >>)
    ELSE IF InferBody(ans).k = "exc" THEN InferExcept(kpi_samples)
    ELSE InferBody(ans)

\* confirm_kpis, lines 495-511: kpi_types.get(kpi_name, infer_kpi_type_fallback(
\* kpi_samples.get(kpi_name, ""))); an exception of the inference propagates
InferredMetadata(selected_kpis, kpi_samples, ans) ==
    LET got == infer_kpi_types_with_ai(kpi_samples, ans)
    IN  IF got.k = "exc" THEN Exc
        ELSE Ok([ n \in DOMAIN selected_kpis |->
                   LET kpi_name == selected_kpis[n]
                       sample_value == IF kpi_name \in DOMAIN kpi_samples
                                       THEN kpi_samples[kpi_name] ELSE << >>
                   IN  [ name |-> kpi_name,
                         type |-> IF kpi_name \in DOMAIN got.v THEN got.v[kpi_name]
                                  ELSE infer_kpi_type_fallback(sample_value) ] ])

(* ------------------------- schema reconciler -------------------------- *)
\* one SchemaField per kpi_metadata entry, in order (lines 272-279, 297-302)
TypedFields(kpi_metadata) ==
    [ n \in DOMAIN kpi_metadata |->
        Field(ColName(kpi_metadata[n].name), get_bigquery_type(kpi_metadata[n].type)) ]

\* the legacy reconciler asks for a STRING column per KPI name (lines 335-338)
LegacyFields(kpi_list) ==
    [ n \in DOMAIN kpi_list |-> Field(ColName(kpi_list[n]), "STRING") ]

\* existing_cols = {field.name for field in table.schema}
ExistingCols(schema) == { f.name : f \in schema }

IsNewField_ByField(f, schema) == f \notin schema

\* a requested column is new when its name is not among the existing names
IsNewField(f, schema) == f.name \notin ExistingCols(schema)

NewFields_All(want, schema) == want

\* new_fields: the requested fields whose name the table lacks, in order
NewFields(want, schema) == SelectSeq(want, LAMBDA f : IsNewField(f, schema))

WidenedSchema_OnlyNew(schema, new_fields) == Range(new_fields)

\* table.schema += new_fields
WidenedSchema(schema, new_fields) == schema \cup Range(new_fields)

\* schema of a table created by sync_bigquery_schema_typed
CreateSchemaTyped(want) == FixedSchema \o want

\* the store refuses a schema that names a column twice
DistinctNames(fields) == \A a, b \in DOMAIN fields : fields[a].name = fields[b].name => a = b

\* update_table sends the etag of the table object it read (If-Match): the
\* store accepts the patch only if the table is still as it was read
UpdateAccepted(tbl, snapshot, new_fields) ==
    /\ tbl.exists
    /\ tbl.schema = snapshot
    /\ DistinctNames(new_fields)
    /\ \A n \in DOMAIN new_fields : new_fields[n].name \notin ExistingCols(snapshot)

\* create_table (no exists_ok) raises Conflict on an existing table
CreateAccepted(tbl, schema) == ~tbl.exists /\ DistinctNames(schema)

(* ------------------------------ event gate ---------------------------- *)
\* an object path is the sequence of its "/"-separated segments
Tenant == "u1"
FolderId == "f1"
DocPath == << "incoming", Tenant, FolderId, "batch", "a.pdf" >>
MasterPath == << "incoming", Tenant, FolderId, "master", "m.pdf" >>
BatchPlaceholder == << "incoming", Tenant, FolderId, "batch", ".placeholder" >>
MasterPlaceholder == << "incoming", Tenant, FolderId, "master", ".placeholder" >>

NewPath_Same(file_path) == file_path

\* file_path.replace("incoming/", "processed/")
NewPath(file_path) ==
    [ n \in DOMAIN file_path |->
        IF n < Len(file_path) /\ file_path[n] = "incoming"
        THEN "processed" ELSE file_path[n] ]

\* the object paths storage events arrive for
EventPaths == { DocPath, MasterPath, BatchPlaceholder, NewPath(DocPath) }

\* the characters of each path segment
Spell ==
    "" :> << >> @@
    "incoming" :> << "i", "n", "c", "o", "m", "i", "n", "g" >> @@
    "processed" :> << "p", "r", "o", "c", "e", "s", "s", "e", "d" >> @@
    "unprocessed" :> << "u", "n", "p", "r", "o", "c", "e", "s", "s", "e", "d" >> @@
    "batch" :> << "b", "a", "t", "c", "h" >> @@
    "master" :> << "m", "a", "s", "t", "e", "r" >> @@
    "sub" :> << "s", "u", "b" >> @@
    "u1" :> << "u", "1" >> @@
    "u2" :> << "u", "2" >> @@
    "f1" :> << "f", "1" >> @@
    "invoices" :> << "i", "n", "v", "o", "i", "c", "e", "s" >> @@
    "a.pdf" :> << "a", ".", "p", "d", "f" >> @@
    "m.pdf" :> << "m", ".", "p", "d", "f" >> @@
    "A.PDF" :> << "A", ".", "P", "D", "F" >> @@
    "a.txt" :> << "a", ".", "t", "x", "t" >> @@
    "report.pdf" :> << "r", "e", "p", "o", "r", "t", ".", "p", "d", "f" >> @@
    ".placeholder" :> << ".", "p", "l", "a", "c", "e", "h", "o", "l", "d", "e", "r" >> @@
    "a.placeholder.pdf" :> << "a", ".", "p", "l", "a", "c", "e", "h", "o", "l", "d", "e", "r", ".", "p", "d", "f" >>

\* the string a path stands for: its segments joined by "/"
RECURSIVE Text(_)
Text(parts) ==
    IF Len(parts) = 1 THEN Spell[parts[1]]
    ELSE Spell[parts[1]] \o << "/" >> \o Text(Tail(parts))

\* t in s
Contains(s, t) ==
    \E n \in 0..(Len(s) - Len(t)) : SubSeq(s, n + 1, n + Len(t)) = t

\* s.endswith(t)
EndsWith(s, t) ==
    Len(t) <= Len(s) /\ SubSeq(s, Len(s) - Len(t) + 1, Len(s)) = t

\* s.lower()
Lower(s) == [ n \in DOMAIN s |-> LowerChar(s[n]) ]

ProcessedMark == Spell["processed"] \o << "/" >>
PlaceholderMark == Spell[".placeholder"]
PdfExt == << ".", "p", "d", "f" >>

\* lines 805-809
GateIgnored(file_path) ==
    LET s == Text(file_path)
    IN  \/ Contains(s, ProcessedMark)
        \/ Contains(s, PlaceholderMark)
        \/ ~EndsWith(Lower(s), PdfExt)

\* lines 812-813
GateIgnoredPath(parts) ==
    Len(parts) < 5 \/ parts[1] # "incoming" \/ parts[4] # "batch"

\* the body of a request as JSON: an object is a function from its keys, a
\* string is held as the path it spells, anything else by its kind only
JObj(f) == [ k |-> "obj", f |-> f ]
JStr(file_path) == [ k |-> "str", path |-> file_path ]
JOther(kind) == [ k |-> kind ]

Get_Strict(o, key, default) == IF key \in DOMAIN o.f THEN o.f[key] ELSE JOther("null")

\* the two shapes of an event for an object path: the fields at the top
\* level, or nested under "data"
Bare(file_path) == JObj("name" :> JStr(file_path))
Wrapped(file_path) == JObj("data" :> JObj("name" :> JStr(file_path)))

\* o.get(key, default)
Get(o, key, default) == IF key \in DOMAIN o.f THEN o.f[key] ELSE default

\* what the gate ends with: a response, or the event passed on to the try block
Response(code, key, val) == [ k |-> "response", code |-> code, key |-> key, val |-> val ]
Dispatched(uid, folder_id, file_path) ==
    [ k |-> "dispatch", uid |-> uid, folder_id |-> folder_id, path |-> file_path ]

\* an exception outside the try block: the framework answers 500
Uncaught == Response(500, "none", "none")

\* lines 800-817; body is what request.get_json(silent=True) returns
Gate(body) ==
    LET payload == IF body.k = "none" THEN JObj(<< >>) ELSE body
    IN  IF payload.k # "obj" THEN Uncaught
        ELSE LET data == Get(payload, "data", payload)
             IN  IF data.k # "obj" THEN Uncaught
                 ELSE LET file_path == Get(data, "name", JStr(<< "" >>))
                      IN  IF file_path.k # "str" THEN Uncaught
                          ELSE IF GateIgnored(file_path.path)
                               THEN Response(200, "status", "ignored")
                          ELSE IF GateIgnoredPath(file_path.path)
                               THEN Response(200, "status", "ignored_path")
                          ELSE Dispatched(file_path.path[2], file_path.path[3],
                                          file_path.path)

(* --------------------------- table identity --------------------------- *)
\* lines 256-258, 316-318, 1022-1024: the table name inside the dataset
TableId(uid, folder_id) == Sanitize(uid) \o << "_" >> \o Sanitize(folder_id)

(* --------------------------- extraction oracle ------------------------ *)
NA == << "N", "/", "A" >>

\* raw values the extraction oracle reports for a field
RawValues == { << "7" >> }

\* longest JSON array the extraction oracle answers with
MaxArr == 2

\* a field name the oracle may report although nobody asked for it
OtherKey == << "x" >>

\* JSON objects over the requested fields and the unrequested one (<< >> is
\* the empty object)
Objs(kpis) == UNION { [ D -> RawValues ] : D \in SUBSET (Range(kpis) \cup { OtherKey }) }

\* what the extraction call yields: an exception or unparsable text, a JSON
\* object, or a JSON array of objects
Responses(kpis) ==
    { [ k |-> "raise", v |-> << >> ] }
    \cup { [ k |-> "obj", v |-> d ] : d \in Objs(kpis) }
    \cup { [ k |-> "arr", v |-> a ] : a \in SeqsUpTo(Objs(kpis), MaxArr) }

\* lines 921-922: a list is replaced by its first element, or {} when empty
ExtractedData(r) ==
    IF r.k = "arr" THEN (IF r.v # << >> THEN r.v[1] ELSE << >>) ELSE r.v

\* extracted_data.get(k, "N/A")
GetOr(d, key, default) == IF key \in DOMAIN d THEN d[key] ELSE default

\* kpi_type_lookup (lines 839-842): a later entry of the same name wins
TypeLookup(kpi_metadata, key) ==
    LET hits == { n \in DOMAIN kpi_metadata : kpi_metadata[n].name = key }
    IN  IF hits = {} THEN "string"
        ELSE kpi_metadata[CHOOSE n \in hits : \A m \in hits : m <= n].type

\* lines 944-955: the row; a later KPI of the same column name overwrites
KpiCols(kpis) == { ColName(kpis[n]) : n \in DOMAIN kpis }

RowValue(col, kpis, kpi_metadata, data) ==
    LET hits == { n \in DOMAIN kpis : ColName(kpis[n]) = col }
        key == kpis[CHOOSE n \in hits : \A m \in hits : m <= n]
    IN  convert_value_for_bq(GetOr(data, key, NA), TypeLookup(kpi_metadata, key))

\* f"row_{int(time.time())}": the clock is read in whole seconds
RowId(now) == [ k |-> "str", s |-> << "row_", now >> ]

BuildRow(file_path, kpis, kpi_metadata, data, now) ==
    [ col \in FixedCols \cup KpiCols(kpis) |->
        IF col = << "row_id" >> THEN RowId(now)
        ELSE IF col = << "file_name" >> THEN [ k |-> "str", s |-> << file_path[Len(file_path)] >> ]
        ELSE IF col = << "uploaded_at" >> THEN [ k |-> "ts" ]
        ELSE RowValue(col, kpis, kpi_metadata, data) ]

\* insert_rows_json can succeed only on an existing table that has every
\* column the row names
InsertAccepted(tbl, row) == tbl.exists /\ DOMAIN row \subseteq ExistingCols(tbl.schema)

(* ------------------------------- state -------------------------------- *)
VARIABLES
    bucket,   \* the object paths that exist in the bucket
    folder,   \* the folder document tenants/u1/folders/f1
    table,    \* the folder's table: whether it exists, and its schema
    rows,     \* the rows inserted into the table, in insertion order
    inv,      \* per invocation in progress: endpoint, position, locals
    out,      \* the response being sent, with what the invocation it answers did
    answer,   \* the extraction oracle's answer being received, and by whom
    call      \* a function of the program applied on its own: argument, result

vars == << bucket, folder, table, rows, inv, out, answer, call >>

\* KPI names payloads draw from; "T" and "t" sanitize to the same column
KpiNames == { << "T" >>, << "t" >>, << "D" >> }

KpiLists == SeqsUpTo(KpiNames, MaxKpis) \ { << >> }

NoFolder ==
    [ exists |-> FALSE, is_trained |-> FALSE, status |-> "none",
      selected_kpis |-> << >>, kpi_metadata |-> << >>, mip |-> FALSE ]

\* folder_data written by create_folder (lines 392-401)
NewFolder ==
    [ exists |-> TRUE, is_trained |-> FALSE, status |-> "waiting_for_training",
      selected_kpis |-> << >>, kpi_metadata |-> << >>, mip |-> FALSE ]

\* a folder confirmed before typed metadata existed: KPIs, no kpi_metadata
LegacyFolder(kpis) ==
    [ exists |-> TRUE, is_trained |-> TRUE, status |-> "active",
      selected_kpis |-> kpis, kpi_metadata |-> << >>, mip |-> FALSE ]

NoTable == [ exists |-> FALSE, schema |-> {} ]

NoOut == [ op |-> "none", code |-> 0, key |-> "none", val |-> "none",
           late |-> FALSE, eff |-> {}, path |-> << >> ]

NoAnswer == [ k |-> "none", v |-> << >>, to |-> 0 ]

NoCall == [ fn |-> "none", arg |-> << >>, res |-> << >>, done |-> FALSE ]

Idle ==
    [ op |-> "none", pc |-> "idle", path |-> << >>, fd |-> NoFolder,
      data |-> << >>,
      kind |-> "none", want |-> << >>, tsnap |-> {}, nf |-> << >>,
      eff |-> {}, late |-> FALSE, end |-> NoOut ]

\* the folder document as confirm_kpis leaves it (lines 537-544)
ConfirmedFolder(doc, kpis, kpi_metadata) ==
    [ doc EXCEPT !.selected_kpis = kpis, !.kpi_metadata = kpi_metadata,
                 !.mip = TRUE, !.is_trained = TRUE, !.status = "active" ]

\* kpi_metadata built from the payload and the inferred types (lines 500-511)
Metadata(selected_kpis, kpi_types) ==
    [ n \in DOMAIN selected_kpis |->
        [ name |-> selected_kpis[n], type |-> kpi_types[selected_kpis[n]] ] ]

\* the payloads of confirm_kpis with the types inferred for them
Confirmations ==
    UNION { { Metadata(ks, tys) : tys \in [ Range(ks) -> Tags ] } : ks \in KpiLists }

Names(kpi_metadata) == [ n \in DOMAIN kpi_metadata |-> kpi_metadata[n].name ]

\* a document awaits processing; the folder is unknown, or a legacy folder
\* whose table was not created yet, or a folder that create_folder made and
\* confirm_kpis trained, with the table confirm_kpis created for it
Init ==
    /\ rows = << >>
    /\ inv = [ i \in Inv |-> Idle ]
    /\ \/ /\ folder \in { NoFolder } \cup { LegacyFolder(ks) : ks \in KpiLists }
          /\ table = NoTable
          /\ bucket = { DocPath }
       \/ \E md \in Confirmations :
            /\ DistinctNames(TypedFields(md))
            /\ folder = ConfirmedFolder(NewFolder, Names(md), md)
            /\ table = [ exists |-> TRUE,
                         schema |-> Range(CreateSchemaTyped(TypedFields(md))) ]
            /\ bucket = { DocPath, MasterPlaceholder, BatchPlaceholder }
    /\ out = NoOut
    /\ answer = NoAnswer
    /\ call = NoCall

Running(i) == inv[i].pc \notin { "idle", "done", "crashed" }

\* invocations are taken in order of their number, at most MaxRunning at once
CanStart(i) ==
    /\ inv[i].pc = "idle"
    /\ \A j \in Inv : j < i => inv[j].pc # "idle"
    /\ Cardinality({ j \in Inv : Running(j) }) < MaxRunning

\* the invocation ends with a response
Finished(r, code, key, val) ==
    [ Idle EXCEPT !.pc = "done",
                  !.end = [ op |-> r.op, code |-> code, key |-> key, val |-> val,
                            late |-> r.late, eff |-> r.eff, path |-> r.path ] ]

\* a finished invocation keeps nothing
Settle(r) == IF r.pc = "done" THEN [ r EXCEPT !.end = NoOut ] ELSE r

\* the response is on the wire in the state that follows the invocation's end
Sent(r) == IF r.pc = "done" THEN r.end ELSE NoOut

\* invocation i moves to r
Move(i, r) == inv' = [ inv EXCEPT ![i] = Settle(r) ] /\ out' = Sent(r) /\ call' = call

\* invocation i moves to r in a step that receives no oracle answer
Step(i, r) == Move(i, r) /\ answer' = NoAnswer

\* the external calls an invocation has made so far
Did(r, made) == [ r EXCEPT !.eff = @ \cup { made } ]

(* ----------------------------- create_folder -------------------------- *)
\* uploads the two placeholders and sets (overwrites) the folder document
create_folder(i) ==
    /\ CanStart(i)
    /\ bucket' = bucket \cup { MasterPlaceholder, BatchPlaceholder }
    /\ folder' = NewFolder
    /\ Step(i, Finished([ Idle EXCEPT !.op = "create_folder" ], 200, "status", "success"))
    /\ UNCHANGED << table, rows >>

(* ------------------- sync_bigquery_schema(_typed) steps --------------- *)
\* the reconciler returned: confirm_kpis answers, the handler goes on to insert
AfterSync(r) ==
    IF r.op = "confirm_kpis" THEN Finished(r, 200, "status", "success")
    ELSE [ r EXCEPT !.pc = "insert", !.want = << >>, !.tsnap = {}, !.nf = << >> ]

\* an exception reaches the endpoint's except clause: confirm_kpis answers 500
\* (line 558), the handler answers 200 with an error body (line 974)
Raised(r, failed) ==
    IF r.op \in { "confirm_kpis", "process_pdf" } THEN Finished(r, 500, "error", failed)
    ELSE Finished(r, 200, "error", failed)

\* get_table succeeded (lines 268-281, 321/330-338)
AfterGet(r, schema) ==
    LET nf == NewFields(r.want, schema)
    IN  IF nf = << >> THEN AfterSync(r)
        ELSE [ r EXCEPT !.pc = "sync_update", !.tsnap = schema, !.nf = nf ]

\* get_table raised (NotFound or any other error): the first read is inside a
\* try whose except clause creates the table; the legacy re-read is not
AfterGetRaised(r) ==
    IF r.pc = "sync_get" THEN [ r EXCEPT !.pc = "sync_create" ]
    ELSE Raised(r, "get_table")

SyncGetTable(i, fail) ==
    /\ inv[i].pc \in { "sync_get", "sync_get2" }
    /\ LET r == Did(inv[i], "get_table")
       IN  Step(i, IF table.exists /\ ~fail THEN AfterGet(r, table.schema)
                   ELSE AfterGetRaised(r))
    /\ UNCHANGED << bucket, folder, table, rows >>

\* update_table raised: the typed reconciler's except clause (line 287) takes
\* it for a missing table and creates; the legacy one lets it propagate
AfterUpdateRaised(r) ==
    IF r.kind = "typed" THEN [ r EXCEPT !.pc = "sync_create", !.tsnap = {}, !.nf = << >> ]
    ELSE Raised(r, "update_table")

SyncUpdate(i, fail) ==
    /\ inv[i].pc = "sync_update"
    /\ LET r == Did(inv[i], "update_table")
       IN  IF UpdateAccepted(table, r.tsnap, r.nf) /\ ~fail
           THEN /\ table' = [ table EXCEPT !.schema = WidenedSchema(r.tsnap, r.nf) ]
                /\ Step(i, AfterSync(Did(r, "updated")))
           ELSE /\ table' = table
                /\ Step(i, AfterUpdateRaised(r))
    /\ UNCHANGED << bucket, folder, rows >>

\* the schema the create call sends (lines 291-302, 323-327)
CreateSchema(r) == IF r.kind = "typed" THEN CreateSchemaTyped(r.want) ELSE FixedSchema

\* after create_table: the typed reconciler returns, the legacy one reads the
\* table again (line 330) and widens it
AfterCreate(r) ==
    IF r.kind = "typed" THEN AfterSync(r) ELSE [ r EXCEPT !.pc = "sync_get2" ]

AfterCreateRaised_Swallowed(r) == AfterCreate(r)

\* create_table raised (lines 304-308, 328-329): nothing catches it inside the
\* reconciler, it reaches the endpoint's except clause
AfterCreateRaised(r) == Raised(r, "create_table")

SyncCreate(i, fail) ==
    /\ inv[i].pc = "sync_create"
    /\ LET r == Did(inv[i], "create_table")
       IN  IF CreateAccepted(table, CreateSchema(r)) /\ ~fail
           THEN /\ table' = [ exists |-> TRUE, schema |-> Range(CreateSchema(r)) ]
                /\ Step(i, AfterCreate(Did(r, "created")))
           ELSE /\ table' = table
                /\ Step(i, AfterCreateRaised(r))
    /\ UNCHANGED << bucket, folder, rows >>

(* ------------------------------ confirm_kpis -------------------------- *)
\* lines 514-523: the folder document is read
ConfirmFolderChecked(r, doc, kpi_metadata) ==
    IF ~doc.exists THEN Finished(r, 404, "error", "Folder not found")
    ELSE [ r EXCEPT !.pc = "c_update",
                    !.fd = [ NoFolder EXCEPT !.selected_kpis = Names(kpi_metadata),
                                             !.kpi_metadata = kpi_metadata ] ]

\* lines 486-523: the payload is read, the types are inferred, the folder
\* document is read
ConfirmStart(i) ==
    /\ CanStart(i)
    /\ \E md \in Confirmations :
         Step(i, ConfirmFolderChecked(Did([ Idle EXCEPT !.op = "confirm_kpis" ], "folder_get"),
                                      folder, md))
    /\ UNCHANGED << bucket, folder, table, rows >>

\* the read of the folder document fails
ConfirmStartFails(i) ==
    /\ CanStart(i)
    /\ Step(i, Raised(Did([ Idle EXCEPT !.op = "confirm_kpis" ], "folder_get"), "folder_get"))
    /\ UNCHANGED << bucket, folder, table, rows >>

\* lines 537-547: the folder document is updated, then the table is reconciled
ConfirmUpdate(i, fail) ==
    /\ inv[i].pc = "c_update"
    /\ LET r == Did(inv[i], "folder_update")
       IN  IF fail \/ ~folder.exists
           THEN /\ folder' = folder
                /\ Step(i, Raised(r, "folder_update"))
           ELSE /\ folder' = ConfirmedFolder(folder, r.fd.selected_kpis, r.fd.kpi_metadata)
                /\ Step(i, [ Did(r, "folder_updated") EXCEPT
                                      !.pc = "sync_get", !.kind = "typed",
                                      !.want = TypedFields(r.fd.kpi_metadata),
                                      !.fd = NoFolder ])
    /\ UNCHANGED << bucket, table, rows >>

(* --------------------------- gcs_trigger_handler ---------------------- *)
FolderChecked_Ignores(r, doc) ==
    IF ~doc.exists THEN Finished(r, 200, "status", "ignored")
    ELSE [ r EXCEPT !.pc = "download", !.fd = doc ]

\* lines 823-842: the folder document is read; only its existence is tested
FolderChecked(r, doc) ==
    IF ~doc.exists THEN Finished(r, 200, "error", "Folder not trained")
    ELSE [ r EXCEPT !.pc = "download", !.fd = doc ]

Arrived_Reading(p) ==
    [ Idle EXCEPT !.op = "gcs_trigger_handler", !.path = p, !.eff = { "folder_get" },
                  !.late = (p \notin bucket /\ NewPath(p) \in bucket) ]

\* the invocation as the event for object path p arrives
Arrived(p) ==
    [ Idle EXCEPT !.op = "gcs_trigger_handler", !.path = p,
                  !.late = (p \notin bucket /\ NewPath(p) \in bucket) ]

\* lines 800-842: the gate, then the read of the folder document
HandlerStart(i) ==
    /\ CanStart(i)
    /\ \E p \in EventPaths :
         Step(i, IF GateIgnored(p) THEN Finished(Arrived(p), 200, "status", "ignored")
                 ELSE IF GateIgnoredPath(p) THEN Finished(Arrived(p), 200, "status", "ignored_path")
                 ELSE FolderChecked(Did(Arrived(p), "folder_get"), folder))
    /\ UNCHANGED << bucket, folder, table, rows >>

\* the gate lets the event pass and the read of the folder document fails
HandlerStartFails(i) ==
    /\ CanStart(i)
    /\ \E p \in EventPaths :
         /\ ~GateIgnored(p) /\ ~GateIgnoredPath(p)
         /\ Step(i, Raised(Did(Arrived(p), "folder_get"), "folder_get"))
    /\ UNCHANGED << bucket, folder, table, rows >>

\* confidence, in hundredths, below which a document is rejected (line 866)
MinConfidence == 70

\* what validate_document_semantic_similarity returns (it never raises: a
\* failure is is_similar False, confidence 0)
Similarities == [ is_similar : BOOLEAN, confidence : { 0, 69, 70 } ]

\* lines 864-867
SemanticReject(similarity) ==
    ~similarity.is_similar \/ similarity.confidence < MinConfidence

\* lines 847-850: download_as_bytes raises NotFound when the object is gone
HandlerDownload(i, fail) ==
    /\ inv[i].pc = "download"
    /\ LET r == Did(inv[i], "download")
       IN  Step(i, IF fail \/ r.path \notin bucket THEN Raised(r, "download")
                   ELSE [ r EXCEPT !.pc = IF r.fd.mip THEN "validate" ELSE "extract" ])
    /\ UNCHANGED << bucket, folder, table, rows >>

\* lines 855-872: the semantic check of a folder that has an intent profile
HandlerValidate(i) ==
    /\ inv[i].pc = "validate"
    /\ \E sim \in Similarities :
         LET r == Did(inv[i], "semantic_oracle")
         IN  Step(i, IF SemanticReject(sim) THEN Finished(r, 200, "status", "rejected")
                     ELSE [ r EXCEPT !.pc = "extract" ])
    /\ UNCHANGED << bucket, folder, table, rows >>

\* lines 933-942: which reconciler the handler calls, and with what
SyncKind(fd) == IF fd.kpi_metadata # << >> THEN "typed" ELSE "legacy"

SyncWant_Nothing(fd) == << >>

SyncWant(fd) ==
    IF fd.kpi_metadata # << >> THEN TypedFields(fd.kpi_metadata)
    ELSE LegacyFields(fd.selected_kpis)

Parsed_Rejects(r, ans) == Finished(r, 200, "status", "rejected")

\* lines 919-942: what is kept of the oracle's answer
Parsed(r, ans) ==
    IF ans.k = "raise" THEN Raised(r, "extract_oracle")
    ELSE IF ExtractedData(ans) = << >> THEN Finished(r, 200, "status", "failed")
    ELSE [ r EXCEPT !.pc = "sync_get", !.data = ExtractedData(ans),
                    !.kind = SyncKind(r.fd), !.want = SyncWant(r.fd) ]

\* lines 900-928: the extraction call
HandlerExtract(i) ==
    /\ inv[i].pc = "extract"
    /\ \E ans \in Responses(inv[i].fd.selected_kpis) :
         /\ Move(i, Parsed(Did(inv[i], "extract_oracle"), ans))
         /\ answer' = [ k |-> ans.k, v |-> ans.v, to |-> i ]
    /\ UNCHANGED << bucket, folder, table, rows >>

ArchiveAllowed_Always(errors) == TRUE

\* lines 960-961: the archive step runs only when insert reported no errors
ArchiveAllowed(errors) == ~errors

\* the row the invocation inserts (lines 944-955)
RowOf(r, now) == BuildRow(r.path, r.fd.selected_kpis, r.fd.kpi_metadata, r.data, now)

\* the seconds time.time() may show: the clock is not behind any row inserted
Clock(inserted) ==
    { t \in 0..MaxTime : \A n \in DOMAIN inserted : inserted[n][<< "row_id" >>].s[2] <= t }

\* lines 944-961
HandlerInsert(i, fail) ==
    /\ inv[i].pc = "insert"
    /\ \E now \in Clock(rows) :
       LET r == Did(inv[i], "insert")
           errors == fail \/ ~InsertAccepted(table, RowOf(r, now))
       IN  /\ rows' = IF errors THEN rows ELSE Append(rows, RowOf(r, now))
           /\ Step(i, IF ArchiveAllowed(errors)
                      THEN [ (IF errors THEN r ELSE Did(r, "inserted")) EXCEPT
                               !.pc = "copy", !.fd = NoFolder, !.data = << >> ]
                      ELSE Raised(r, "insert"))
    /\ UNCHANGED << bucket, folder, table >>

CopyBlob_Nothing(objects, new_path) == objects

\* what bucket.copy_blob(blob, bucket, new_path) leaves of the bucket
CopyBlob(objects, new_path) == objects \cup { new_path }

\* line 967: copy_blob raises NotFound when the source is gone
HandlerCopy(i, fail) ==
    /\ inv[i].pc = "copy"
    /\ LET r == Did(inv[i], "copy")
       IN  IF fail \/ r.path \notin bucket
           THEN /\ bucket' = bucket
                /\ Step(i, Raised(r, "copy"))
           ELSE /\ bucket' = CopyBlob(bucket, NewPath(r.path))
                /\ Step(i, [ Did(r, "copied") EXCEPT !.pc = "delete" ])
    /\ UNCHANGED << folder, table, rows >>

BlobDelete_Keeps(objects, path) == objects

\* what blob.delete() leaves of the bucket
BlobDelete(objects, path) == objects \ { path }

\* line 968: blob.delete() raises NotFound when the object is gone
HandlerDelete(i, fail) ==
    /\ inv[i].pc = "delete"
    /\ LET r == Did(inv[i], "delete")
       IN  IF fail \/ r.path \notin bucket
           THEN /\ bucket' = bucket
                /\ Step(i, Raised(r, "delete"))
           ELSE /\ bucket' = BlobDelete(bucket, r.path)
                /\ Step(i, Finished(Did(r, "deleted"), 200, "status", "success"))
    /\ UNCHANGED << folder, table, rows >>

\* the process serving an invocation dies between two steps: no response
Crash(i) ==
    /\ Running(i)
    /\ inv' = [ inv EXCEPT ![i] = [ Idle EXCEPT !.pc = "crashed" ] ]
    /\ out' = NoOut
    /\ answer' = NoAnswer
    /\ UNCHANGED << bucket, folder, table, rows, call >>

(* ------------------------ process_pdf (src/Main.py) ------------------- *)
\* the events process_pdf receives: no JSON body, a resourceName without
\* "/objects/", or the resourceName of an object
FolderEvent == << "incoming", Tenant, FolderId, "batch", "" >>
OutsidePath == << Tenant, "a.pdf" >>
UnprocessedPath == << "incoming", Tenant, "unprocessed", "batch", "a.pdf" >>
PdfEvents ==
    { [ k |-> "none" ], [ k |-> "other" ] }
    \cup { [ k |-> "object", path |-> p ] :
             p \in { DocPath, NewPath(DocPath), FolderEvent, OutsidePath, UnprocessedPath } }

IncomingMark == Spell["incoming"] \o << "/" >>

\* Main.py lines 105-136: the text process_pdf answers an event with before
\* it touches the bucket, "pass" when it goes on
PdfGate(event) ==
    IF event.k # "object" THEN "Ignored"
    ELSE LET file_path == Text(event.path)
         IN  IF EndsWith(file_path, << "/" >>) THEN "OK"
             ELSE IF ~Contains(file_path, IncomingMark) THEN "OK"
             ELSE IF Contains(file_path, ProcessedMark) THEN "OK"
             ELSE "pass"

PdfArrived(p) == [ Idle EXCEPT !.op = "process_pdf", !.path = p ]

\* process_pdf has no try block: an exception of a client call is answered 500.
\* Main.py lines 105-149: the gate, then blob.exists()
PdfStart(i, fail) ==
    /\ CanStart(i)
    /\ \E event \in PdfEvents :
         LET g == PdfGate(event)
         IN  IF g # "pass"
             THEN /\ ~fail
                  /\ Step(i, Finished(PdfArrived(<< >>), 200, "text", g))
             ELSE LET r == Did(PdfArrived(event.path), "exists")
                  IN  Step(i, IF fail THEN Raised(r, "exists")
                              ELSE IF r.path \notin bucket
                                   THEN Finished(r, 200, "text", "OK")
                              ELSE [ r EXCEPT !.pc = "pdf_download" ])
    /\ UNCHANGED << bucket, folder, table, rows >>

\* Main.py line 156: download_to_filename raises NotFound when the object is gone
PdfDownload(i, fail) ==
    /\ inv[i].pc = "pdf_download"
    /\ LET r == Did(inv[i], "download")
       IN  Step(i, IF fail \/ r.path \notin bucket THEN Raised(r, "download")
                   ELSE [ r EXCEPT !.pc = "pdf_parse" ])
    /\ UNCHANGED << bucket, folder, table, rows >>

\* Main.py lines 159-160: extract_text swallows its errors; call_gemini raises
\* when generate_content does and swallows an answer that is not JSON
PdfParse(i, fail) ==
    /\ inv[i].pc = "pdf_parse"
    /\ LET r == Did(inv[i], "extract_oracle")
       IN  Step(i, IF fail THEN Raised(r, "extract_oracle")
                   ELSE [ r EXCEPT !.pc = "pdf_insert" ])
    /\ UNCHANGED << bucket, folder, table, rows >>

\* the row insert_bigquery builds (Main.py lines 82-92), by its identifying
\* columns
PdfRow(file_path) ==
    [ client_id |-> file_path[1], file_name |-> file_path ]

\* Main.py lines 161-164: insert_bigquery returns nothing, so the move follows
\* whatever insert_rows_json reported
MoveAllowed(err) == TRUE

\* Main.py lines 78-98, 161: insert_rows_json reports errors (err) or raises
\* (fail); the errors are printed
PdfInsert(i, err, fail) ==
    /\ inv[i].pc = "pdf_insert"
    /\ LET r == Did(inv[i], "insert")
       IN  IF fail
           THEN rows' = rows /\ Step(i, Raised(r, "insert"))
           ELSE /\ rows' = IF err THEN rows ELSE Append(rows, PdfRow(r.path))
                /\ Step(i, IF MoveAllowed(err)
                           THEN [ (IF err THEN r ELSE Did(r, "inserted")) EXCEPT
                                    !.pc = "pdf_move" ]
                           ELSE Finished(r, 200, "text", "OK"))
    /\ UNCHANGED << bucket, folder, table >>

\* Main.py lines 22-28: src.exists()
PdfMove(i, fail) ==
    /\ inv[i].pc = "pdf_move"
    /\ LET r == Did(inv[i], "exists")
       IN  Step(i, IF fail THEN Raised(r, "exists")
                   ELSE IF r.path \notin bucket THEN Finished(r, 200, "text", "OK")
                   ELSE [ r EXCEPT !.pc = "pdf_copy" ])
    /\ UNCHANGED << bucket, folder, table, rows >>

\* Main.py line 31: copy_blob raises NotFound when the source is gone
PdfCopy(i, fail) ==
    /\ inv[i].pc = "pdf_copy"
    /\ LET r == Did(inv[i], "copy")
       IN  IF fail \/ r.path \notin bucket
           THEN /\ bucket' = bucket
                /\ Step(i, Raised(r, "copy"))
           ELSE /\ bucket' = CopyBlob(bucket, NewPath(r.path))
                /\ Step(i, [ Did(r, "copied") EXCEPT !.pc = "pdf_delete" ])
    /\ UNCHANGED << folder, table, rows >>

\* Main.py lines 32-33, 166-169: src.delete() raises NotFound when the object
\* is gone
PdfDelete(i, fail) ==
    /\ inv[i].pc = "pdf_delete"
    /\ LET r == Did(inv[i], "delete")
       IN  IF fail \/ r.path \notin bucket
           THEN /\ bucket' = bucket
                /\ Step(i, Raised(r, "delete"))
           ELSE /\ bucket' = BlobDelete(bucket, r.path)
                /\ Step(i, Finished(Did(r, "deleted"), 200, "text", "OK"))
    /\ UNCHANGED << folder, table, rows >>

\* the service of src/Main.py: the document awaits in incoming/
InitPdf ==
    /\ rows = << >>
    /\ inv = [ i \in Inv |-> Idle ]
    /\ folder = NoFolder
    /\ table = NoTable
    /\ bucket = { DocPath }
    /\ out = NoOut
    /\ answer = NoAnswer
    /\ call = NoCall

NextPdf ==
    \E i \in Inv :
        \/ \E fail \in BOOLEAN : PdfStart(i, fail)
        \/ \E fail \in BOOLEAN : PdfDownload(i, fail)
        \/ \E fail \in BOOLEAN : PdfParse(i, fail)
        \/ \E err, fail \in BOOLEAN : PdfInsert(i, err, fail)
        \/ \E fail \in BOOLEAN : PdfMove(i, fail)
        \/ \E fail \in BOOLEAN : PdfCopy(i, fail)
        \/ \E fail \in BOOLEAN : PdfDelete(i, fail)
        \/ Crash(i)

SpecPdf == InitPdf /\ [][NextPdf]_vars

(* --------------------------- specification ---------------------------- *)
Next ==
    \E i \in Inv :
        \/ create_folder(i)
        \/ ConfirmStart(i)
        \/ ConfirmStartFails(i)
        \/ \E fail \in BOOLEAN : ConfirmUpdate(i, fail)
        \/ \E fail \in BOOLEAN : SyncGetTable(i, fail)
        \/ \E fail \in BOOLEAN : SyncUpdate(i, fail)
        \/ \E fail \in BOOLEAN : SyncCreate(i, fail)
        \/ HandlerStart(i)
        \/ HandlerStartFails(i)
        \/ \E fail \in BOOLEAN : HandlerDownload(i, fail)
        \/ HandlerValidate(i)
        \/ HandlerExtract(i)
        \/ \E fail \in BOOLEAN : HandlerInsert(i, fail)
        \/ \E fail \in BOOLEAN : HandlerCopy(i, fail)
        \/ \E fail \in BOOLEAN : HandlerDelete(i, fail)
        \/ Crash(i)

Spec == Init /\ [][Next]_vars

\* the same program when no call fails for a reason outside the model: a call
\* is refused only when the state of the store it addresses refuses it, and no
\* process dies
NextCalm ==
    \E i \in Inv :
        \/ create_folder(i)
        \/ ConfirmStart(i)
        \/ ConfirmUpdate(i, FALSE)
        \/ SyncGetTable(i, FALSE)
        \/ SyncUpdate(i, FALSE)
        \/ SyncCreate(i, FALSE)
        \/ HandlerStart(i)
        \/ HandlerDownload(i, FALSE)
        \/ HandlerValidate(i)
        \/ HandlerExtract(i)
        \/ HandlerInsert(i, FALSE)
        \/ HandlerCopy(i, FALSE)
        \/ HandlerDelete(i, FALSE)

SpecCalm == Init /\ [][NextCalm]_vars

\* redelivery of the notification for DocPath to a configured folder, the
\* invocations one after another, every call answering
Sequential == \A i, j \in Inv : Running(i) /\ Running(j) => i = j

Delivery(i) ==
    /\ \A j \in Inv : ~Running(j)
    /\ HandlerStart(i)
    /\ inv'[i].path = DocPath

Answered(i) == HandlerExtract(i) /\ answer'.k # "raise"

NextSeq ==
    \E i \in Inv :
        \/ Delivery(i)
        \/ HandlerDownload(i, FALSE)
        \/ HandlerValidate(i)
        \/ Answered(i)
        \/ SyncGetTable(i, FALSE)
        \/ SyncUpdate(i, FALSE)
        \/ SyncCreate(i, FALSE)
        \/ HandlerInsert(i, FALSE)
        \/ HandlerCopy(i, FALSE)
        \/ HandlerDelete(i, FALSE)

InitSeq == Init /\ folder.exists

SpecSeq == InitSeq /\ [][NextSeq]_vars

(* ------------------ the functions applied on their own ---------------- *)
Repeat(c, n) == [ k \in 1..n |-> c ]

\* sample values handed to the fallback classifier
FallbackSamples ==
    { << >>,
      << "N", "/", "A" >>,
      << "-", "-", "-" >>,
      << "I", "N", "V", "-", "2", "0", "2", "4", "-", "0", "0", "1" >>,
      << "$", "1", ",", "2", "5", "0", ".", "5", "0" >>,
      << "M", "a", "r", "c", "h", " ", "5", ",", " ", "2", "0", "2", "4" >>,
      << "m", "a", "y", " ", "1", "2", " ", "2", "0", "2", "4" >>,
      << "S", "e", "p", "t", " ", "5", ",", " ", "2", "0", "2", "4" >>,
      << "M", "a", "r", "c", "h", " ", "1", "2", "3", ",", " ", "2", "0", "2", "4" >>,
      << "2", "0", "2", "4", "-", "0", "1", "-", "1", "5" >>,
      << "1", "5", "/", "0", "1", "/", "2", "0", "2", "4" >>,
      << "1", "-", "2", "-", "2", "4" >>,
      << "2", "0", "2", "4", "-", "1", "-", "2", "-", "3" >>,
      << "A", "c", "t", "i", "v", "e" >>,
      << "I", "n", " ", "P", "r", "o", "g", "r", "e", "s", "s" >>,
      << "-", "1", "2", ".", "5" >>,
      << "1", "2", "." >>,
      << " ", "4", "2", " " >>,
      << "7", "%" >>,
      << "1", ".", "2", ".", "3" >>,
      << "Q", "1", " ", "2", "0", "2", "4" >>,
      << "n", "/", "a" >>,
      << "o", "k", "!" >>,
      << "-", " ", "-" >>,
      << "A" >> \o Repeat("1", MaxCodeLen - 1),
      << "A" >> \o Repeat("1", MaxCodeLen),
      Repeat("a", MaxWordLen),
      Repeat("a", MaxWordLen + 1) }

\* sample values of a confirm_kpis payload
InferSamples == { << "$", "1", ",", "2", "5", "0", ".", "5", "0" >>, << "I", "N", "V", "-", "2", "0", "2", "4", "-", "0", "0", "1" >>, << >> }

\* kpi_samples of a payload: samples for some of the selected KPIs
SamplesFor(kpis) == UNION { [ D -> InferSamples ] : D \in SUBSET Range(kpis) }

\* what the classification call yields: an exception or unparsable text, JSON
\* that is no object, or an object over the sampled fields and another one
ClassAnswers(kpi_samples) ==
    { [ k |-> "raise", v |-> << >> ], [ k |-> "other", v |-> << >> ] }
    \cup { [ k |-> "obj", v |-> m ] :
             m \in UNION { [ D -> AnswerValues ] :
                              D \in SUBSET (DOMAIN kpi_samples \cup { OtherKey }) } }

InferArgs ==
    UNION { UNION { { [ selected_kpis |-> ks, kpi_samples |-> sm, ans |-> a ] :
                        a \in ClassAnswers(sm) } : sm \in SamplesFor(ks) } : ks \in KpiLists }

\* the applications that can be asked for
\* object paths of every shape the gate tells apart
GateTenants == { "u1", "u2" }
GateFolders == { "f1", "invoices", "unprocessed" }
GateFiles == { "a.pdf", "A.PDF", "report.pdf", "a.txt", ".placeholder", "a.placeholder.pdf" }
GatePaths ==
    { << a, t, f, b, x >> : a \in { "incoming", "processed" }, t \in GateTenants,
                            f \in GateFolders, b \in { "batch", "master" }, x \in GateFiles }
    \cup { << "incoming", t, "batch", x >> : t \in GateTenants, x \in GateFiles }
    \cup { << "incoming", t, f, "batch", "sub", x >> :
               t \in GateTenants, f \in GateFolders, x \in GateFiles }
    \cup { << "" >> }

\* the two bodies that carry an object path: bare, or wrapped under "data"
Events(file_path) == { Bare(file_path), Wrapped(file_path) }

\* request bodies of every shape
Bodies ==
    UNION { Events(p) : p \in GatePaths }
    \cup { JOther("none"), JOther("list"), JObj(<< >>),
           JObj("data" :> JOther("str")), JObj("data" :> JOther("null")),
           JObj("name" :> JOther("num")), JObj("name" :> JOther("null")),
           JObj("data" :> JObj("name" :> JOther("list"))) }

\* tenant and folder identifiers, as characters
IdChars == { "t", "T", "_" }
Ids == { << c >> : c \in IdChars } \cup { << c, d >> : c \in IdChars, d \in IdChars }
IdPairs == Ids \X Ids

\* raw values with each type tag; "integer" is a tag outside the four
NumberSamples ==
    { << "(", "$", "1", ",", "2", "5", "0", ".", "5", "0", ")" >>,
      << "(", "1", "0", "0", ")" >>,
      << "1", ",", "2", "5", "0", ".", "5", "0" >>,
      << "$", "1", "0", "0" >>,
      << "5", "0", "%" >>,
      << " ", "1", "2", " " >>,
      << "-", "5" >>,
      << "(", "-", "5", ")" >>,
      << "₹", "1", "0", "0" >>,
      << "a", "b", "c" >>,
      << "1", ".", "5" >>,
      << "0", ".", "0", "5" >>,
      << >>,
      << "N", "/", "A" >>,
      << "-", "-", "-" >> }
DateSamples ==
    { << >>,
      << "N", "/", "A" >>,
      << "n", "o", "t", " ", "a", " ", "d", "a", "t", "e" >>,
      << "7" >>,
      << "0" >>,
      << " ", "7", " " >>,
      << "2", "0", "2", "4", "-", "0", "1", "-", "1", "5" >>,
      << "1", "9", "9", "9", "-", "1", "2", "-", "3", "1" >>,
      << "2", "0", "2", "4", "0", "1", "1", "5" >>,
      << "2", "0", "2", "4" >>,
      << "9", "9", "9", "9", "9" >>,
      << "9", "9", "9", "9", "9", "9", "9", "9", "9", "9", "9" >> }
TextSamples ==
    { << >>,
      << " ", "N", "/", "A", " " >>,
      << "N", "/", "A" >>,
      << " ", " " >>,
      << " ", "a", "b", " " >>,
      << "a", "b", "c" >>,
      << "-", "-", "-" >>,
      << "2", "0", "2", "4", "-", "0", "1", "-", "1", "5" >>,
      << "1", "0", "0" >> }
NormArgs ==
    { [ value |-> v, ai_type |-> "number" ] : v \in NumberSamples }
    \cup { [ value |-> v, ai_type |-> "date" ] : v \in DateSamples }
    \cup { [ value |-> v, ai_type |-> t ] :
               v \in TextSamples, t \in { "categorical", "string", "integer" } }

\* raw values whose typed value is normalized a second time
RenormArgs ==
    { [ value |-> << "(", "$", "1", ",", "2", "5", "0", ".", "5", "0", ")" >>, ai_type |-> "number" ],
      [ value |-> << "(", "1", "0", "0", ")" >>, ai_type |-> "number" ],
      [ value |-> << "0", ".", "0", "5" >>, ai_type |-> "number" ],
      [ value |-> << "a", "b", "c" >>, ai_type |-> "number" ],
      [ value |-> << >>, ai_type |-> "number" ],
      [ value |-> << "2", "0", "2", "4", "-", "0", "1", "-", "1", "5" >>, ai_type |-> "date" ],
      [ value |-> << "2", "0", "2", "4", "0", "1", "1", "5" >>, ai_type |-> "date" ],
      [ value |-> << "9", "9", "9", "9", "9" >>, ai_type |-> "date" ],
      [ value |-> << "n", "o", "t", " ", "a", " ", "d", "a", "t", "e" >>, ai_type |-> "date" ],
      [ value |-> << " ", "a", "b", " " >>, ai_type |-> "string" ],
      [ value |-> << "a", "b", "c" >>, ai_type |-> "categorical" ],
      [ value |-> << " ", "N", "/", "A", " " >>, ai_type |-> "string" ],
      [ value |-> << " ", " " >>, ai_type |-> "categorical" ],
      [ value |-> << >>, ai_type |-> "string" ] }

\* convert_value_for_bq applied to what it returned
Renormalized(value, ai_type) ==
    LET first == convert_value_for_bq(value, ai_type)
    IN  [ first |-> first,
          second |-> IF first.k = "raise" THEN first
                     ELSE convert_value_for_bq(AsRaw(first), ai_type) ]

Calls ==
    { [ NoCall EXCEPT !.fn = "gate", !.arg = b ] : b \in Bodies }
    \cup { [ NoCall EXCEPT !.fn = "convert_value_for_bq", !.arg = a ] : a \in NormArgs }
    \cup { [ NoCall EXCEPT !.fn = "renormalize", !.arg = a ] : a \in RenormArgs }
    \cup { [ NoCall EXCEPT !.fn = "table_id", !.arg = q ] : q \in IdPairs }
    \cup { [ NoCall EXCEPT !.fn = "infer_kpi_type_fallback", !.arg = v ] : v \in FallbackSamples }
    \cup { [ NoCall EXCEPT !.fn = "infer_kpi_types_with_ai", !.arg = a ] : a \in InferArgs }
    \cup { [ NoCall EXCEPT !.fn = "kpi_metadata", !.arg = a ] : a \in InferArgs }

\* the function asked for returns res
Returns(res) ==
    /\ ~call.done
    /\ call' = [ call EXCEPT !.res = res, !.done = TRUE ]
    /\ UNCHANGED << bucket, folder, table, rows, inv, out, answer >>

ApplyFallback ==
    /\ call.fn = "infer_kpi_type_fallback"
    /\ Returns(infer_kpi_type_fallback(call.arg))

ApplyInfer ==
    /\ call.fn = "infer_kpi_types_with_ai"
    /\ Returns(infer_kpi_types_with_ai(call.arg.kpi_samples, call.arg.ans))

ApplyMetadata ==
    /\ call.fn = "kpi_metadata"
    /\ Returns(InferredMetadata(call.arg.selected_kpis, call.arg.kpi_samples, call.arg.ans))

ApplyGate ==
    /\ call.fn = "gate"
    /\ Returns(Gate(call.arg))

ApplyTableId ==
    /\ call.fn = "table_id"
    /\ Returns(TableId(call.arg[1], call.arg[2]))

ApplyConvert ==
    /\ call.fn = "convert_value_for_bq"
    /\ Returns(convert_value_for_bq(call.arg.value, call.arg.ai_type))

ApplyRenormalize ==
    /\ call.fn = "renormalize"
    /\ Returns(Renormalized(call.arg.value, call.arg.ai_type))

InitFun ==
    /\ bucket = {} /\ folder = NoFolder /\ table = NoTable /\ rows = << >>
    /\ inv = [ i \in Inv |-> Idle ]
    /\ out = NoOut /\ answer = NoAnswer
    /\ call \in Calls

NextFun ==
    \/ ApplyGate
    \/ ApplyConvert
    \/ ApplyRenormalize
    \/ ApplyTableId
    \/ ApplyFallback
    \/ ApplyInfer
    \/ ApplyMetadata

SpecFun == InitFun /\ [][NextFun]_vars

(* ------------------------------ properties ---------------------------- *)
Handler == "gcs_trigger_handler"

ArchiveCalls == { "copy", "copied", "delete", "deleted" }

SchemaCalls == { "create_table", "created", "update_table", "updated" }

\* a row inserted for the document at DocPath
RowFor(row) == row[<< "file_name" >>] = [ k |-> "str", s |-> << DocPath[Len(DocPath)] >> ]

\* C1: the archive step (copy, then delete) runs only after the row insert
\* returned no errors: an invocation that is about to copy or delete, or that
\* answered after trying to, has inserted its row; an invocation that answers
\* with the insert's errors has neither copied nor deleted; and whenever the
\* object has left incoming/ or a copy exists under processed/ (also after a
\* crash at any point) a row for the document is in the table.
C1_ArchiveOnlyAfterInsert ==
    /\ \A i \in Inv : inv[i].pc \in { "copy", "delete" } => "inserted" \in inv[i].eff
    /\ out.eff \cap ArchiveCalls # {} => "inserted" \in out.eff
    /\ (out.key = "error" /\ out.val = "insert") => out.eff \cap ArchiveCalls = {}
    /\ (DocPath \notin bucket \/ NewPath(DocPath) \in bucket) =>
          \E n \in DOMAIN rows : RowFor(rows[n])

\* an invocation answers success after it inserted, copied and deleted
C1_Archived ==
    /\ out.op = Handler /\ out.val = "success"
    /\ { "inserted", "copied", "deleted" } \subseteq out.eff
    /\ DocPath \notin bucket /\ NewPath(DocPath) \in bucket

\* C2: an invocation of gcs_trigger_handler that read a folder document with
\* is_trained == false calls no extraction oracle, creates or alters no table
\* and inserts no row.
C2_UntrainedNotProcessed ==
    \A i \in Inv :
        (inv[i].op = Handler /\ inv[i].fd.exists /\ ~inv[i].fd.is_trained) =>
            inv[i].eff \cap ({ "extract_oracle", "get_table", "insert" } \cup SchemaCalls) = {}

\* the folder is as create_folder left it, and yet the handler created the
\* table (fixed columns only), inserted a row and archived the document
C2_UntrainedArchived ==
    /\ folder = NewFolder
    /\ table = [ exists |-> TRUE, schema |-> Range(FixedSchema) ]
    /\ Len(rows) = 1
    /\ DocPath \notin bucket /\ NewPath(DocPath) \in bucket

\* C3 (as amended): under sequential redelivery with every call answering, at
\* most one row is inserted for the object, exactly one once a delivery ended
\* in success or the object was archived, and a delivery that arrives after
\* the object was archived makes no insert call and no create or alter call.
C3_AtMostOnceSequential ==
    /\ Len(rows) <= 1
    /\ (DocPath \notin bucket \/ out.val = "success") => Len(rows) = 1
    /\ \A i \in Inv : inv[i].late => inv[i].eff \cap ({ "insert" } \cup SchemaCalls) = {}
    /\ out.late => out.eff \cap ({ "insert" } \cup SchemaCalls) = {}

\* a delivery that arrived after the object was archived has been answered
C3_Redelivered ==
    /\ out.op = Handler /\ out.late
    /\ Len(rows) = 1 /\ DocPath \notin bucket

\* C3 (as stated): once every delivery has been handled, exactly one row is
\* in the table.
C3_ExactlyOneRow ==
    (\A i \in Inv : inv[i].pc = "done") => Len(rows) = 1

\* C4: an invocation that inserted its row and then found the object already
\* moved answers 200 with a body that does not report an error.
C4_LoserNotAFailure ==
    ( /\ out.op = Handler /\ "inserted" \in out.eff
      /\ DocPath \notin bucket /\ NewPath(DocPath) \in bucket )
    => (out.code = 200 /\ out.key # "error")

\* both invocations inserted a row, and the slower one answers with the error
\* of its copy or delete
C4_LoserAnswersError ==
    /\ out.op = Handler /\ out.code = 200 /\ out.key = "error"
    /\ out.val \in { "copy", "delete" } /\ "inserted" \in out.eff
    /\ Len(rows) = 2
    /\ DocPath \notin bucket /\ NewPath(DocPath) \in bucket

\* C5: no step removes the table or a column of it, and a table that exists
\* has the three fixed columns row_id, file_name, uploaded_at.
C5_SchemaMonotone ==
    [][ /\ table.exists => table'.exists
        /\ ExistingCols(table.schema) \subseteq ExistingCols(table'.schema)
        /\ table.exists => FixedCols \subseteq ExistingCols(table.schema)
        /\ table'.exists => FixedCols \subseteq ExistingCols(table'.schema) ]_vars

\* a reconciler call created the table and then widened it
C5_Widened ==
    \E i \in Inv :
        /\ { "created", "updated" } \subseteq inv[i].eff
        /\ FixedCols \subseteq ExistingCols(table.schema)
        /\ ExistingCols(table.schema) # FixedCols

\* C6: whatever the interleaving of two reconciler calls, when no call fails
\* for an outside reason neither call raises: no invocation answers with the
\* error of a create_table or update_table call.
C6_ConcurrentSyncCompletes ==
    ~(out.key = "error" /\ out.val \in { "create_table", "update_table" })

\* a reconciler call that found the table absent, or whose alter was refused
\* as stale, raised out of create_table on the table the other call made
C6_ConflictRaised ==
    /\ out.key = "error" /\ out.val = "create_table"
    /\ "create_table" \in out.eff /\ "created" \notin out.eff
    /\ table.exists

\* C7: a column a step finds in the table is, after the step, the only column
\* of its name and has the type it had; and an alter request a reconciler has
\* prepared names no column of the table it read.
C7_NeverRetyped ==
    [][ /\ \A f \in table.schema : \A g \in table'.schema : g.name = f.name => g = f
        /\ \A i \in Inv : inv'[i].pc = "sync_update" =>
              \A n \in DOMAIN inv'[i].nf :
                  inv'[i].nf[n].name \notin ExistingCols(inv'[i].tsnap) ]_vars

\* the handler's reconciler call returned without a create or alter call
\* although the folder asks for a column under another type than the table has
C7_ConflictKept ==
    \E i \in Inv :
        /\ inv[i].op = Handler /\ inv[i].pc = "insert"
        /\ "get_table" \in inv[i].eff /\ inv[i].eff \cap SchemaCalls = {}
        /\ \E f \in Range(TypedFields(inv[i].fd.kpi_metadata)) : \E g \in table.schema :
              f.name = g.name /\ f.type # g.type

SyncFailed(eff) ==
    \/ "update_table" \in eff /\ "updated" \notin eff
    \/ "create_table" \in eff /\ "created" \notin eff

\* C9: a handler invocation whose create or alter call failed inserts no row,
\* copies and deletes nothing, and answers 200 with an error body.
C9_SyncFailureIsFatal ==
    /\ \A i \in Inv : (inv[i].op = Handler /\ SyncFailed(inv[i].eff)) =>
          /\ inv[i].pc = "sync_create"
          /\ inv[i].eff \cap ({ "insert", "inserted" } \cup ArchiveCalls) = {}
    /\ (out.op = Handler /\ SyncFailed(out.eff)) =>
          /\ out.code = 200 /\ out.key = "error"
          /\ out.val \in { "create_table", "update_table" }
          /\ out.eff \cap ({ "insert", "inserted" } \cup ArchiveCalls) = {}

\* the handler answers with the error of its failed create call
C9_SyncErrorAnswered ==
    /\ out.op = Handler /\ SyncFailed(out.eff)
    /\ out.key = "error" /\ out.val = "create_table"
    /\ DocPath \in bucket

\* the key-wise merge of the objects of an array
Merged(a) ==
    [ key \in UNION { DOMAIN a[n] : n \in DOMAIN a } |->
        a[CHOOSE n \in DOMAIN a :
              key \in DOMAIN a[n] /\ \A m \in DOMAIN a : key \in DOMAIN a[m] => m <= n][key] ]

\* C10: when the extraction oracle answers with an array whose objects hold a
\* field, the handler goes on with the key-wise merge of the array: the row
\* it will insert is the row built from the merge.
C10_ArrayMerged ==
    (answer.k = "arr" /\ DOMAIN Merged(answer.v) # {}) =>
        LET r == inv[answer.to]
        IN  /\ r.pc = "sync_get"
            /\ RowOf(r, 0) = BuildRow(r.path, r.fd.selected_kpis, r.fd.kpi_metadata,
                                       Merged(answer.v), 0)

\* the handler goes on with the first object of an array whose second object
\* holds a selected KPI the first one lacks
C10_FirstOnly ==
    /\ answer.k = "arr" /\ Len(answer.v) = 2
    /\ inv[answer.to].pc = "sync_get"
    /\ inv[answer.to].data = answer.v[1]
    /\ \E key \in DOMAIN answer.v[2] :
          /\ key \in Range(inv[answer.to].fd.selected_kpis)
          /\ key \notin DOMAIN inv[answer.to].data

\* C17: any two rows of the table carry different row_id values.
C17_RowIdUnique ==
    \A a, b \in DOMAIN rows :
        a # b => rows[a][<< "row_id" >>] # rows[b][<< "row_id" >>]

\* C11: when the classification call fails or answers with an empty object,
\* the kpi_metadata confirm_kpis builds gives every selected field the type
\* infer_kpi_type_fallback gives for its sample value.
C11_FailureFallsBack ==
    ( /\ call.fn = "kpi_metadata" /\ call.done
      /\ \/ call.arg.ans.k = "raise"
         \/ call.arg.ans.k = "obj" /\ DOMAIN call.arg.ans.v = {} )
    => /\ call.res.k = "ok"
       /\ \A n \in DOMAIN call.res.v :
             call.res.v[n].type =
               infer_kpi_type_fallback(
                 IF call.res.v[n].name \in DOMAIN call.arg.kpi_samples
                 THEN call.arg.kpi_samples[call.res.v[n].name] ELSE << >>)

\* the classification call failed and a field whose sample the fallback
\* classifies as number is stored as string
C11_FailureGivesString ==
    /\ call.fn = "kpi_metadata" /\ call.done
    /\ call.arg.ans.k = "raise"
    /\ \E n \in DOMAIN call.res.v :
          /\ call.res.v[n].name \in DOMAIN call.arg.kpi_samples
          /\ infer_kpi_type_fallback(call.arg.kpi_samples[call.res.v[n].name]) = "number"
          /\ call.res.v[n].type = "string"

\* C20: infer_kpi_types_with_ai returns a mapping for every answer of the
\* oracle and never raises, and every tag it returns, every tag
\* infer_kpi_type_fallback returns and every type of the kpi_metadata is one
\* of number, date, categorical, string.
C20_InferenceTotalAndClosed ==
    call.done =>
        /\ call.fn = "infer_kpi_types_with_ai" =>
              /\ call.res.k = "ok"
              /\ \A key \in DOMAIN call.res.v : call.res.v[key] \in Tags
        /\ call.fn = "infer_kpi_type_fallback" => call.res \in Tags
        /\ call.fn = "kpi_metadata" =>
              /\ call.res.k = "ok"
              /\ \A n \in DOMAIN call.res.v : call.res.v[n].type \in Tags

\* the oracle answered with a tag outside the four and it became string
C20_UnknownTagCoerced ==
    /\ call.fn = "infer_kpi_types_with_ai" /\ call.done
    /\ call.arg.ans.k = "obj"
    /\ \E key \in DOMAIN call.arg.ans.v :
          /\ call.arg.ans.v[key] = [ isstr |-> TRUE, s |-> "integer" ]
          /\ key \in DOMAIN call.res.v
          /\ call.res.v[key] = "string"

\* the decision list the specification gives for the fallback classifier
SpecFallback(value) ==
    IF IsAbsent(value) THEN "string"
    ELSE LET val_str == Strip(value)
         IN  IF IsNumericText(RemoveCurrency(val_str)) THEN "number"
             ELSE IF (\E n \in DOMAIN val_str : val_str[n] \in LetterChars)
                     /\ (\E n \in DOMAIN val_str : val_str[n] \in DigitChars)
                  THEN IF MatchesMonthDate(val_str) THEN "date" ELSE "categorical"
             ELSE IF MatchesNumericDate(val_str) THEN "date"
             ELSE IF Len(val_str) <= 25 /\ IsAlphaToken(val_str) THEN "categorical"
             ELSE "string"

\* C19: for every value, infer_kpi_type_fallback returns the tag of the
\* specification's decision list: a value with letters and digits that is no
\* long-form date is categorical whatever its length.
C19_FallbackAsSpecified ==
    (call.fn = "infer_kpi_type_fallback" /\ call.done) => call.res = SpecFallback(call.arg)

\* a value of letters and digits longer than 30 characters is classified string
C19_LongCodeIsString ==
    /\ call.fn = "infer_kpi_type_fallback" /\ call.done
    /\ Len(call.arg) > 30
    /\ \E n \in DOMAIN call.arg : call.arg[n] \in LetterChars
    /\ \E n \in DOMAIN call.arg : call.arg[n] \in DigitChars
    /\ call.res = "string"

\* two invocations inserted their rows within the same second
C17_SameSecond ==
    /\ Len(rows) = 2
    /\ rows[1][<< "row_id" >>] = rows[2][<< "row_id" >>]

\* the five-segment shape incoming/{tenant}/{folder}/batch/{filename}
FiveShape(file_path) ==
    Len(file_path) = 5 /\ file_path[1] = "incoming" /\ file_path[4] = "batch"

\* C12: the gate answers every event whose object path has not exactly the
\* shape incoming/{tenant}/{folder}/batch/{filename} (fewer or more than five
\* segments, another first segment, another fourth segment) with a 200
\* response and never passes it on to extraction.
C12_OnlyFiveShapeDispatched ==
    \A p \in GatePaths :
        (call.fn = "gate" /\ call.done /\ call.arg \in Events(p) /\ ~FiveShape(p)) =>
            /\ call.res.k = "response"
            /\ call.res.code = 200

\* a PDF one directory below batch/ is passed on to extraction
C12_SixSegmentsDispatched ==
    /\ call.fn = "gate" /\ call.done
    /\ call.arg \in Events(<< "incoming", "u1", "f1", "batch", "sub", "a.pdf" >>)
    /\ call.res.k = "dispatch"

\* C13: the gate passes on every event whose object path has the shape
\* incoming/{tenant}/{folder}/batch/{filename}, ends in a PDF extension,
\* contains no placeholder marker and has no segment equal to processed, with
\* the second segment as tenant and the third as folder, whatever their names.
C13_FiveShapeDispatched ==
    \A p \in GatePaths :
        ( /\ call.fn = "gate" /\ call.done /\ call.arg \in Events(p)
          /\ FiveShape(p)
          /\ EndsWith(Lower(Text(p)), PdfExt)
          /\ ~Contains(Text(p), PlaceholderMark)
          /\ \A n \in DOMAIN p : p[n] # "processed" ) =>
            call.res = Dispatched(p[2], p[3], p)

\* a PDF uploaded to the folder named unprocessed is answered "ignored"
C13_UnprocessedFolderIgnored ==
    /\ call.fn = "gate" /\ call.done
    /\ call.arg \in Events(<< "incoming", "u1", "unprocessed", "batch", "report.pdf" >>)
    /\ call.res = Response(200, "status", "ignored")

\* C14: gcs_trigger_handler answers 200 to every request, whatever the shape
\* of its body and whichever outside call fails.
C14_AlwaysOk ==
    /\ (call.fn = "gate" /\ call.done /\ call.res.k = "response") => call.res.code = 200
    /\ out.op = Handler => out.code = 200

\* a body that is a JSON list is answered 500
C14_ListBodyAnswered500 ==
    /\ call.fn = "gate" /\ call.done
    /\ call.arg = JOther("list")
    /\ call.res.code = 500

\* C18: the table identity is a function of (tenant_id, folder_id), and no
\* two different pairs have the same table identity.
C18_TableIdInjective ==
    (call.fn = "table_id" /\ call.done) =>
        /\ call.res = TableId(call.arg[1], call.arg[2])
        /\ \A q \in IdPairs : TableId(q[1], q[2]) = call.res => q = call.arg

\* tenant t_ with folder t has the table of tenant t with folder _t
C18_TwoPairsOneTable ==
    /\ call.fn = "table_id" /\ call.done
    /\ call.arg = << << "t", "_" >>, << "t" >> >>
    /\ call.res = TableId(<< "t" >>, << "_", "t" >>)

\* C15: an invocation that finds the object gone when it downloads it ends
\* as a no-op that is not reported as an error: it answers 200 with a status
\* body, has called no oracle, made no table, insert, copy or delete call,
\* and leaves bucket, folder, table and rows as they were.
C15_GoneIsNoOp ==
    [][ \A i \in Inv :
          (inv[i].pc = "download" /\ inv[i].path \notin bucket /\ inv'[i] # inv[i]) =>
              /\ out'.op = Handler /\ out'.code = 200 /\ out'.key = "status"
              /\ out'.eff \subseteq { "folder_get", "download" }
              /\ UNCHANGED << bucket, folder, table, rows >> ]_vars

\* the object was archived by another invocation and the download of this one
\* is answered with an error body
C15_GoneReportedAsError ==
    /\ out.op = Handler /\ out.code = 200
    /\ out.key = "error" /\ out.val = "download"
    /\ out.eff = { "folder_get", "download" }
    /\ DocPath \notin bucket /\ NewPath(DocPath) \in bucket

\* C16: a delivery for the object in incoming/.../batch/ of a trained folder
\* that passed the semantic check, extracted a non-empty answer and whose
\* schema sync and insert succeeded answers success, has inserted, copied and
\* deleted, and leaves exactly one row for the document in the table and the
\* object under processed/ and no longer under incoming/.
C16_SuccessPath ==
    ( /\ out.op = Handler /\ "get_table" \in out.eff
      /\ ~SyncFailed(out.eff)
      /\ ~(out.key = "error" /\ out.val = "insert") ) =>
        /\ out.code = 200 /\ out.key = "status" /\ out.val = "success"
        /\ { "inserted", "copied", "deleted" } \subseteq out.eff
        /\ Len(rows) = 1 /\ RowFor(rows[1])
        /\ NewPath(DocPath) \in bucket /\ DocPath \notin bucket

\* a delivery to a folder with an intent profile went through the semantic
\* check, the extraction, an alter of the table, the insert and the archive
C16_WholePipeline ==
    /\ out.op = Handler /\ out.val = "success"
    /\ { "semantic_oracle", "extract_oracle", "get_table", "inserted", "copied",
         "deleted" } \subseteq out.eff
    /\ Len(rows) = 1 /\ RowFor(rows[1])
    /\ NewPath(DocPath) \in bucket /\ DocPath \notin bucket

\* C21: the decision of the gate is a function of the event alone: in every
\* state, whatever earlier invocations left in the bucket, the folder document
\* and the table, a handler invocation answered ignored or ignored_path, or
\* went on with tenant and folder, exactly as Gate gives for its object path.
C21_GateDecisionPure ==
    /\ out.op = Handler =>
          LET g == Gate(Bare(out.path))
          IN  /\ g.k = "response" =>
                    /\ out.code = g.code /\ out.key = g.key /\ out.val = g.val
                    /\ out.eff = {}
              /\ g.k = "dispatch" =>
                    /\ "folder_get" \in out.eff
                    /\ out.val \notin { "ignored", "ignored_path" }
    /\ \A i \in Inv : (inv[i].op = Handler /\ Running(i)) =>
          Gate(Bare(inv[i].path)) =
              Dispatched(inv[i].path[2], inv[i].path[3], inv[i].path)

\* the event for the document is delivered again after the object was
\* archived and a row inserted, and it passes the gate as it did before
C21_SameDecisionAfterArchive ==
    /\ out.op = Handler /\ out.path = DocPath /\ out.late
    /\ "folder_get" \in out.eff
    /\ Len(rows) >= 1 /\ NewPath(DocPath) \in bucket

\* C22: an event the gate rejects has no side effect: the invocation has
\* made no call (no folder read, oracle, table, insert, copy or delete call)
\* and its step leaves bucket, folder, table and rows unchanged.
C22_RejectedNoEffects ==
    [][ (out'.op = Handler /\ Gate(Bare(out'.path)).k = "response") =>
            /\ out'.eff = {}
            /\ UNCHANGED << bucket, folder, table, rows >> ]_vars

\* the event for the master document is answered ignored_path with no call made
C22_MasterRejected ==
    /\ out.op = Handler /\ out.path = MasterPath
    /\ out.val = "ignored_path" /\ out.eff = {}

\* C26: for every object path, the event with the fields at the top level and
\* the event with the fields under "data" get the same decision of the gate,
\* with the same tenant, folder and object path.
C26_BothShapes ==
    \A p \in GatePaths :
        (call.fn = "gate" /\ call.done /\ call.arg \in Events(p)) =>
            /\ call.res = Gate(Bare(p))
            /\ call.res = Gate(Wrapped(p))

\* an event nested under "data" is dispatched with the tenant and folder of
\* its path
C26_WrappedDispatched ==
    /\ call.fn = "gate" /\ call.done
    /\ call.arg = Wrapped(<< "incoming", "u2", "invoices", "batch", "report.pdf" >>)
    /\ call.res = Dispatched("u2", "invoices",
                             << "incoming", "u2", "invoices", "batch", "report.pdf" >>)

\* C27: process_pdf moves the object only after insert_rows_json returned no
\* errors: an invocation that is at the move, or answered after a copy or
\* delete call, has inserted its row, and the object leaves incoming/ only
\* when a row for it is in the table.
C27_MoveOnlyAfterInsert ==
    /\ \A i \in Inv :
          (inv[i].op = "process_pdf" /\ inv[i].pc \in { "pdf_move", "pdf_copy", "pdf_delete" })
              => "inserted" \in inv[i].eff
    /\ (out.op = "process_pdf" /\ out.eff \cap ArchiveCalls # {}) => "inserted" \in out.eff
    /\ DocPath \notin bucket => rows # << >>

\* insert_rows_json reported errors, and the invocation answered OK after it
\* moved the object: the document is under processed/ with no row
C27_ArchivedWithoutRow ==
    /\ out.op = "process_pdf" /\ out.code = 200 /\ out.val = "OK"
    /\ "insert" \in out.eff /\ "inserted" \notin out.eff
    /\ { "copied", "deleted" } \subseteq out.eff
    /\ rows = << >>
    /\ DocPath \notin bucket /\ NewPath(DocPath) \in bucket

\* C28: an invocation that answers rejected (the validator said not similar,
\* or gave a confidence below 0.70, or failed) has made the folder read, the
\* download and the semantic check and no other call: no extraction, no
\* create or alter of the table, no insert, no copy, no delete; the rejecting
\* step leaves the object, the table and the rows as they were.
C28_RejectedStops ==
    [][ (out'.op = Handler /\ out'.val = "rejected") =>
            /\ out'.code = 200 /\ out'.key = "status"
            /\ out'.eff = { "folder_get", "download", "semantic_oracle" }
            /\ UNCHANGED << bucket, folder, table, rows >> ]_vars

\* the document is rejected and stays in incoming/, with no row inserted
C28_RejectedStays ==
    /\ out.op = Handler /\ out.val = "rejected" /\ out.path = DocPath
    /\ "extract_oracle" \notin out.eff
    /\ DocPath \in bucket /\ NewPath(DocPath) \notin bucket
    /\ rows = << >>

\* C29: the archive never loses the document: in every state of every
\* interleaving, also after a crash at any point, the object is at its
\* incoming/ path or at its processed/ path, and a step that removes it from
\* incoming/ finds the copy under processed/ already there.
C29_NeverLost ==
    [][ /\ DocPath \in bucket \/ NewPath(DocPath) \in bucket
        /\ DocPath \in bucket' \/ NewPath(DocPath) \in bucket'
        /\ (DocPath \in bucket /\ DocPath \notin bucket') => NewPath(DocPath) \in bucket ]_vars

\* the only invocation crashed after its copy and before its delete: the
\* object is at both paths
C29_CrashedBetweenCopyAndDelete ==
    /\ inv[1].pc = "crashed"
    /\ \A j \in Inv \ { 1 } : inv[j].pc = "idle"
    /\ DocPath \in bucket /\ NewPath(DocPath) \in bucket

\* C30: whenever an invocation of gcs_trigger_handler is about to call the
\* row insert, the table exists and every key of the row it built (row_id,
\* file_name, uploaded_at and one kpi_ column per selected KPI) is a column of
\* the table, whatever create_folder and confirm_kpis calls made the folder.
C30_RowKeysAreColumns ==
    \A i \in Inv :
        (inv[i].op = Handler /\ inv[i].pc = "insert") =>
            /\ table.exists
            /\ DOMAIN RowOf(inv[i], 0) =
                  FixedCols \cup KpiCols(inv[i].fd.selected_kpis)
            /\ DOMAIN RowOf(inv[i], 0) \subseteq ExistingCols(table.schema)

\* an invocation is about to insert the row of the folder as it read it,
\* after a later confirm_kpis gave the folder other KPIs and widened the table
C30_InsertAfterReconfirm ==
    \E i \in Inv :
        /\ inv[i].op = Handler /\ inv[i].pc = "insert"
        /\ folder.selected_kpis # inv[i].fd.selected_kpis
        /\ KpiCols(folder.selected_kpis) \subseteq ExistingCols(table.schema)
        /\ KpiCols(folder.selected_kpis) \cap DOMAIN RowOf(inv[i], 0) = {}

\* C23: convert_value_for_bq never raises: for every raw value and type tag,
\* also a tag outside the four, a text that is no number and a text that is
\* no date, it returns null or a typed value.
C23_NormalizerTotal ==
    (call.fn = "convert_value_for_bq" /\ call.done) =>
        call.res.k \in { "null", "num", "date", "str" }

\* a number of eleven digits normalized as a date leaves the function as an
\* OverflowError
C23_LongNumberAsDateRaises ==
    /\ call.fn = "convert_value_for_bq" /\ call.done
    /\ call.arg.ai_type = "date"
    /\ IsDigits(call.arg.value) /\ Len(call.arg.value) = 11
    /\ call.res = Raise("OverflowError")

\* the number branch as the specification words it: every currency symbol,
\* thousands separator, percent sign and whitespace is removed, and a value
\* wrapped in parentheses is the negative of the number it encloses
SpecCurrencyChars == CurrencyChars \cup { "₹" }

Negated(v) == IF v.k = "num" THEN [ v EXCEPT !.m = 0 - v.m ] ELSE v

SpecNumber(value) ==
    LET cleaned == SelectSeq(value, LAMBDA c : c \notin SpecCurrencyChars)
    IN  IF cleaned # << >> /\ Head(cleaned) = "(" /\ cleaned[Len(cleaned)] = ")"
        THEN Negated(ParseFloat(SubSeq(cleaned, 2, Len(cleaned) - 1)))
        ELSE ParseFloat(cleaned)

\* C24: for type number, every value that is a number once its currency
\* symbols, thousands separators, percent signs and whitespace are removed
\* is returned as that number, and as the negative of the enclosed number
\* when it is wrapped in parentheses.
C24_NumberCleaned ==
    ( /\ call.fn = "convert_value_for_bq" /\ call.done
      /\ call.arg.ai_type = "number"
      /\ SpecNumber(call.arg.value) # NULL ) =>
        call.res = SpecNumber(call.arg.value)

\* a negative number wrapped in parentheses, or an amount in a currency
\* outside $, EUR, GBP, JPY, is returned as null
C24_NumberLost ==
    /\ call.fn = "convert_value_for_bq" /\ call.done
    /\ call.arg.ai_type = "number"
    /\ call.arg.value \in { << "(", "-", "5", ")" >>, << "₹", "1", "0", "0" >> }
    /\ call.res = NULL

\* C25: a value convert_value_for_bq returned for a tag is returned unchanged
\* when it is normalized again with the same tag.
C25_NormalizerIdempotent ==
    (call.fn = "renormalize" /\ call.done /\ call.res.first.k # "raise") =>
        /\ call.res.second.k = call.res.first.k
        /\ call.res.second = call.res.first

\* the text N/A between spaces is returned as the string N/A, which is null
\* when normalized again
C25_SentinelAfterStrip ==
    /\ call.fn = "renormalize" /\ call.done
    /\ call.arg.value = << " ", "N", "/", "A", " " >>
    /\ call.res.first = [ k |-> "str", s |-> << "N", "/", "A" >> ]
    /\ call.res.second = NULL


(* ------------------ C32: confirm_kpis is all-or-nothing ---------------- *)
\* C32: a confirm_kpis call that answers with an error response has not
\* written the folder document: is_trained, status, selected_kpis and
\* kpi_metadata are as they were before the call.
C32_ConfirmAllOrNothing ==
    (out.op = "confirm_kpis" /\ out.code # 200) => "folder_updated" \notin out.eff

\* confirm_kpis answers 500 because create_table failed, after it marked the
\* folder trained and stored the KPIs; the folder has no table
C32_TrainedWithoutTable ==
    /\ out.op = "confirm_kpis" /\ out.code = 500 /\ out.val = "create_table"
    /\ "folder_updated" \in out.eff
    /\ folder.is_trained /\ folder.status = "active" /\ folder.kpi_metadata # << >>
    /\ ~table.exists

(* -------------- C31: row values agree with the column types ------------ *)
\* the kinds of normalized value a column of the given type holds: a date is
\* sent as a YYYY-MM-DD string, so a STRING column holds it as a string
Agrees(v, type) ==
    \/ v = NULL
    \/ type = "FLOAT64" /\ v.k = "num"
    \/ type = "DATE" /\ v.k = "date"
    \/ type = "STRING" /\ v.k \in { "str", "date" }

\* C31: in every row the handler inserted, the value of each KPI column
\* agrees with the type that column has in the table.
C31_ValuesAgreeWithColumns ==
    \A n \in DOMAIN rows : \A col \in DOMAIN rows[n] \ FixedCols :
        \A f \in table.schema : f.name = col => Agrees(rows[n][col], f.type)

\* a column created as FLOAT64 or DATE was confirmed again as a string, and
\* the row inserted afterwards carries the trimmed string for it
C31_StringInTypedColumn ==
    /\ out.op = Handler /\ "inserted" \in out.eff
    /\ \E n \in DOMAIN rows : \E col \in DOMAIN rows[n] \ FixedCols :
         /\ rows[n][col].k = "str"
         /\ \E f \in table.schema : f.name = col /\ f.type \in { "FLOAT64", "DATE" }
         /\ \E m \in DOMAIN folder.kpi_metadata :
              /\ ColName(folder.kpi_metadata[m].name) = col
              /\ get_bigquery_type(folder.kpi_metadata[m].type) = "STRING"
====
